---- MODULE Spec2Model ----
(***************************************************************************)
(* Model of the NDI tracker test harness: the tick scheduler that mocks    *)
(* the keyboard (sim_runner.py, sim_runner_flexible.py), the reader loop   *)
(* that polls it (NDI transformation reader), the SmoothDisplay renderer,  *)
(* the TX coordinate codec and the sphere simulator (virtual_spheres.py).  *)
(*                                                                         *)
(* Strings of the wire format are sequences of one-character strings, so   *)
(* that slicing, padding and scanning are computed as the code computes    *)
(* them.  Three threads run in the harness: the main thread executing the  *)
(* reader script, the daemon ticker and the daemon terminator.  A          *)
(* statement "x.tick += 1" is a load followed by a store; it is one step   *)
(* only with respect to threads that take the same lock.                   *)
(*                                                                         *)
(* Each specification exercises one area of the repository (variable       *)
(* area); the variables of the other areas keep their idle values.         *)
(***************************************************************************)
EXTENDS Integers, Sequences, FiniteSets, TLC

\* ------------------------------------------------------------------ bounds
\* largest value tick is let to reach
MaxTick == 2
\* largest tick a schedule maps to a key
MaxSchedTick == 2
\* longest frame handed to SmoothDisplay.update
MaxLines == 5
\* longest list of integers handed to the encoder
MaxVals == 3
\* longest raw string handed to the decoder
MaxRaw == 4
\* most spheres added to a simulator
MaxSpheres == 2
\* most records the reader is let to pick
MaxPicked == 2

\* -------------------------------------------------------- program constants
NUM_DIGIT == 6
NUM_DIMEN == 3
\* default width of format_coord
DEFAULT_WIDTH == 6
BUTTON_REC == "c"
BUTTON_EXPORT == "e"
NoKey == "None"
NoThread == "none"

VARIABLES
  area,        \* which part of the repository this behaviour exercises
  \* ---- scheduler and reader loop
  patched,     \* PATCH_TIME_SLEEP: time.sleep replaced by _sleep
  schedule,    \* _KeyboardMock.schedule
  tick,        \* _KeyboardMock.tick
  fired,       \* _KeyboardMock._fired
  history,     \* _KeyboardMock._history
  lock,        \* holder of _KeyboardMock._lock
  pc,          \* position of each thread
  tmp,         \* the value of tick a thread has loaded for "tick += 1"
  ret,         \* where a thread continues after the call it is in
  key,         \* is_pressed: argument
  want,        \* is_pressed: local want
  res,         \* is_pressed: value about to be returned
  recPressed,  \* reader: is_BUTTON_REC_pressed
  expPressed,  \* reader: is_BUTTON_EXPORT_pressed
  picked,      \* reader: len(picked_coord)
  exported,    \* reader: Coordinates.txt written
  exited,      \* the process has ended
  incs,        \* history variable: completed increments of tick (stores), capped
  tkIncs,      \* history variable: stores to tick in the ticker's current iteration
  callTick,    \* history variable: tick the running is_pressed looked up
  callStable,  \* history variable: tick has not changed during that call
  answered,    \* history variable: ticks whose mapped key was asked in a stable call
  lookups,     \* history variable: per True return, the tick that was looked up
  marks,       \* history variable: per True return, the tick that was marked fired
  phase,       \* "single", or "real"/"accel" when two runs are compared
  histReal,    \* history of the finished real-time run
  \* ---- SmoothDisplay, one entry per instance
  last_lines,  \* SmoothDisplay.last_lines
  enabled,     \* SmoothDisplay.enabled
  out,         \* what the last call wrote to sys.stdout
  prevLines,   \* history variable: last_lines when the last call began
  lastOp,      \* history variable: the last call made on the instance
  prevOp,      \* history variable: the call made before the last one
  argLines,    \* history variable: the lines handed to the last update
  \* ---- codec
  cStage,      \* "values" / "raw" input, then "encoded", then "decoded"
  cVals,       \* the integers handed to the encoder
  cWidth,      \* width / len_digit
  cToks,       \* chunks: the tokens the encoder returned
  cStr,        \* the string: the encoded frame or the raw input
  cOut,        \* list_position of TX0008_pos_str_to_list
  cRest,       \* str_input of a TX0008_pos_str_to_list call that is in its loop
  \* ---- sphere simulator
  spheres,     \* SphereSimulator.spheres
  positions,   \* what the last get_all_positions returned
  response,    \* what the last generate_tx_response returned
  simOp,       \* history variable: the last call made on the simulator
  base_response, \* make_tx_with_status: the frame make_fake_tx_string returned
  created,     \* create_simulator_from_config: the spheres of the simulator returned
  scenario,    \* create_simulator_from_config: scenario.spheres of the call, while
               \* it is the last operation (empty after any other operation)
  \* ---- one iteration of the reader's main loop
  rFrame,      \* TX0008_pos_str: what the last poll returned
  rPos,        \* pos_list as decoded from it
  rSpheres,    \* list_sphere
  rPicked,     \* picked_coord
  rShown,      \* what the loop last handed to display.update
  rExported,   \* the records written to Coordinates.txt
  rDone,       \* the loop has been left
  rOutcome,    \* history variable: how the last iteration ended
  rBuilt,      \* history variable: Sphere objects built by the last iteration
  rFlip        \* history variable: changes with every iteration

schedVars == <<patched, schedule, tick, fired, history, lock, pc, tmp, ret, key,
               want, res, recPressed, expPressed, picked, exported, exited,
               incs, tkIncs,
               callTick, callStable, answered, lookups, marks,
               phase, histReal>>
dispVars == <<last_lines, enabled, out, prevLines, lastOp, prevOp, argLines>>
codecVars == <<cStage, cVals, cWidth, cToks, cStr, cOut, cRest>>
simVars == <<spheres, positions, response, simOp, base_response,
             scenario, created>>
loopVars == <<rFrame, rPos, rSpheres, rPicked, rShown, rExported, rDone,
              rOutcome, rBuilt, rFlip>>

vars == <<area, schedVars, dispVars, codecVars, simVars, loopVars>>

notSched == <<area, dispVars, codecVars, simVars, loopVars>>
notDisp == <<area, schedVars, codecVars, simVars, loopVars>>
notCodec == <<area, schedVars, dispVars, simVars, loopVars>>
notSim == <<area, schedVars, dispVars, codecVars, loopVars>>
notLoop == <<area, schedVars, dispVars, codecVars, simVars>>

Threads == {"reader", "ticker", "terminator"}
Keys == {BUTTON_REC, BUTTON_EXPORT}
Ticks == 0..MaxTick
Displays == {"runner", "reader"}

\* ---------------------------------------------------------- idle values
IdleSched ==
  /\ patched = FALSE
  /\ schedule = [t \in Ticks |-> NoKey]
  /\ tick = 0
  /\ fired = {}
  /\ history = <<>>
  /\ lock = NoThread
  /\ pc = [th \in Threads |-> "idle"]
  /\ tmp = [th \in Threads |-> 0]
  /\ ret = [th \in Threads |-> "none"]
  /\ key = NoKey
  /\ want = NoKey
  /\ res = FALSE
  /\ recPressed = FALSE
  /\ expPressed = FALSE
  /\ picked = 0
  /\ exported = FALSE
  /\ exited = FALSE
  /\ incs = 0
  /\ tkIncs = 0
  /\ callTick = 0
  /\ callStable = TRUE
  /\ answered = {}
  /\ lookups = <<>>
  /\ marks = <<>>
  /\ phase = "single"
  /\ histReal = <<>>

IdleDisp ==
  /\ last_lines = [d \in Displays |-> <<>>]
  /\ enabled = [d \in Displays |-> TRUE]
  /\ out = [d \in Displays |-> <<>>]
  /\ prevLines = [d \in Displays |-> <<>>]
  /\ lastOp = [d \in Displays |-> "init"]
  /\ prevOp = [d \in Displays |-> "init"]
  /\ argLines = [d \in Displays |-> <<>>]

IdleCodec ==
  /\ cStage = "idle"
  /\ cVals = <<>>
  /\ cWidth = NUM_DIGIT
  /\ cToks = <<>>
  /\ cStr = <<>>
  /\ cOut = <<>>
  /\ cRest = <<>>

IdleSim ==
  /\ spheres = <<>>
  /\ positions = <<>>
  /\ response = <<>>
  /\ simOp = "init"
  /\ base_response = <<>>
  /\ scenario = <<>>
  /\ created = <<>>

IdleLoop ==
  /\ rFrame = <<>>
  /\ rPos = <<>>
  /\ rSpheres = <<>>
  /\ rPicked = <<>>
  /\ rShown = <<>>
  /\ rExported = <<>>
  /\ rDone = FALSE
  /\ rOutcome = "init"
  /\ rBuilt = 0
  /\ rFlip = FALSE

\* ====================================================================
\* Event scheduler (_KeyboardMock, _ticker, _sleep) and the reader loop
\* ====================================================================

\* The schedules a harness is started with: a dict tick -> key; a tick the
\* dict does not hold is mapped to NoKey, which is what dict.get returns.
Schedules == {s \in [Ticks -> Keys \cup {NoKey}] :
                 \A t \in Ticks : t > MaxSchedTick => s[t] = NoKey}

\* The positions of the reader inside is_pressed, the lock held.
IpLocs == {"ip_test", "ip_add", "ip_hist", "ip_ret"}

StartPc == [th \in Threads |->
              IF th = "reader" THEN "r_init"
              ELSE IF th = "ticker" THEN "tk_sleep" ELSE "tm_sleep"]

\* _KeyboardMock.__init__ and the module-level thread starts.
HarnessStart(p, s) ==
  /\ patched = p
  /\ schedule = s
  /\ tick = 0
  /\ fired = {}
  /\ history = <<>>
  /\ lock = NoThread
  /\ pc = StartPc
  /\ tmp = [th \in Threads |-> 0]
  /\ ret = [th \in Threads |-> "none"]
  /\ key = NoKey
  /\ want = NoKey
  /\ res = FALSE
  /\ recPressed = FALSE
  /\ expPressed = FALSE
  /\ picked = 0
  /\ exported = FALSE
  /\ exited = FALSE
  /\ incs = 0
  /\ tkIncs = 0
  /\ callTick = 0
  /\ callStable = TRUE
  /\ answered = {}
  /\ lookups = <<>>
  /\ marks = <<>>

InitSched ==
  /\ area = "sched"
  /\ phase = "single"
  /\ histReal = <<>>
  /\ \E p \in BOOLEAN, s \in Schedules : HarnessStart(p, s)
  /\ IdleDisp /\ IdleCodec /\ IdleSim /\ IdleLoop

Running == area = "sched" /\ ~exited

\* A thread calls time.sleep and continues at r.  With the patch it enters
\* _sleep and loads tick for keyboard_mock.tick += 1; without the patch the
\* real sleep only lets time pass.
CallSleep(th, r) ==
  IF patched
    THEN /\ tmp' = [tmp EXCEPT ![th] = tick]
         /\ pc' = [pc EXCEPT ![th] = "sl_write"]
         /\ ret' = [ret EXCEPT ![th] = r]
    ELSE /\ pc' = [pc EXCEPT ![th] = r]
         /\ UNCHANGED <<tmp, ret>>

\* callStable after a store of newTick to tick: a store that changes tick
\* while the reader is inside is_pressed ends the call's stability.
StableAfter(newTick) ==
  IF pc["reader"] \in IpLocs /\ newTick # tick THEN FALSE ELSE callStable

\* The count of completed increments after one more; it is not kept
\* beyond MaxTick + 1.
Counted(n) == IF n <= MaxTick THEN n + 1 ELSE n

\* _sleep: keyboard_mock.tick += 1, the store; then _real_sleep(dt) and return.
SleepWrite(th) ==
  /\ Running
  /\ pc[th] = "sl_write"
  /\ tmp[th] < MaxTick
  /\ tick' = tmp[th] + 1
  /\ incs' = Counted(incs)
  /\ tkIncs' = IF th = "ticker" THEN tkIncs + 1 ELSE tkIncs
  /\ callStable' = StableAfter(tmp[th] + 1)
  /\ tmp' = [tmp EXCEPT ![th] = 0]
  /\ pc' = [pc EXCEPT ![th] = ret[th]]
  /\ ret' = [ret EXCEPT ![th] = "none"]
  /\ UNCHANGED <<notSched, patched, schedule, fired, history, lock, key, want, res,
                 recPressed, expPressed, picked, exported, exited, callTick, answered,
                 lookups, marks, phase, histReal>>

\* _ticker: _time.sleep(period).
TickerSleep ==
  /\ Running
  /\ pc["ticker"] = "tk_sleep"
  /\ CallSleep("ticker", "tk_lock")
  /\ tkIncs' = 0
  /\ UNCHANGED <<notSched, patched, schedule, tick, fired, history, lock, key, want, res,
                 recPressed, expPressed, picked, exported, exited, incs, callTick,
                 callStable, answered, lookups, marks, phase, histReal>>

\* _ticker: with mock._lock, and the load of mock.tick += 1.
TickerAcquire ==
  /\ Running
  /\ pc["ticker"] = "tk_lock"
  /\ lock = NoThread
  /\ lock' = "ticker"
  /\ tmp' = [tmp EXCEPT !["ticker"] = tick]
  /\ pc' = [pc EXCEPT !["ticker"] = "tk_write"]
  /\ UNCHANGED <<notSched, patched, schedule, tick, fired, history, ret, key, want, res,
                 recPressed, expPressed, picked, exported, exited, incs, tkIncs,
                 callTick, callStable, answered, lookups, marks, phase, histReal>>

\* _ticker: mock.tick += 1, the store, and the end of the with block.
TickerWrite ==
  /\ Running
  /\ pc["ticker"] = "tk_write"
  /\ tmp["ticker"] < MaxTick
  /\ tick' = tmp["ticker"] + 1
  /\ incs' = Counted(incs)
  /\ tkIncs' = tkIncs + 1
  /\ callStable' = StableAfter(tmp["ticker"] + 1)
  /\ tmp' = [tmp EXCEPT !["ticker"] = 0]
  /\ lock' = NoThread
  /\ pc' = [pc EXCEPT !["ticker"] = "tk_sleep"]
  /\ UNCHANGED <<notSched, patched, schedule, fired, history, ret, key, want, res,
                 recPressed, expPressed, picked, exported, exited, callTick, answered,
                 lookups, marks, phase, histReal>>

\* _terminator: _time.sleep((LAST_TICK + 60) * UPDATE_RATE).
TerminatorSleep ==
  /\ Running
  /\ pc["terminator"] = "tm_sleep"
  /\ CallSleep("terminator", "tm_exit")
  /\ UNCHANGED <<notSched, patched, schedule, tick, fired, history, lock, key, want, res,
                 recPressed, expPressed, picked, exported, exited, incs, tkIncs,
                 callTick, callStable, answered, lookups, marks, phase, histReal>>

\* A terminator that returns from its thread function without ending the
\* process.
TerminatorReturn ==
  /\ Running
  /\ pc["terminator"] = "tm_exit"
  /\ pc' = [pc EXCEPT !["terminator"] = "tm_done"]
  /\ UNCHANGED <<notSched, patched, schedule, tick, fired, history, lock, tmp, ret, key,
                 want, res, recPressed, expPressed, picked, exported, exited, incs,
                 tkIncs, callTick, callStable, answered, lookups, marks, phase, histReal>>

\* _terminator: os._exit(0).
TerminatorExit ==
  /\ Running
  /\ pc["terminator"] = "tm_exit"
  /\ exited' = TRUE
  /\ pc' = [pc EXCEPT !["terminator"] = "tm_done"]
  /\ UNCHANGED <<notSched, patched, schedule, tick, fired, history, lock, tmp, ret, key,
                 want, res, recPressed, expPressed, picked, exported, incs, tkIncs,
                 callTick, callStable, answered, lookups, marks, phase, histReal>>

\* is_pressed(k), called at from and returning to to: with self._lock;
\* want = self.schedule.get(self.tick); want == key.
IsPressedGet(k, from, to) ==
  /\ Running
  /\ pc["reader"] \in from
  /\ lock = NoThread
  /\ lock' = "reader"
  /\ key' = k
  /\ ret' = [ret EXCEPT !["reader"] = to]
  /\ callTick' = tick
  /\ callStable' = TRUE
  /\ want' = schedule[tick]
  /\ IF schedule[tick] = k
       THEN /\ pc' = [pc EXCEPT !["reader"] = "ip_test"]
            /\ UNCHANGED res
       ELSE /\ pc' = [pc EXCEPT !["reader"] = "ip_ret"]
            /\ res' = FALSE
  /\ UNCHANGED <<notSched, patched, schedule, tick, fired, history, tmp, recPressed,
                 expPressed, picked, exported, exited, incs, tkIncs, answered, lookups,
                 marks, phase, histReal>>

\* is_pressed: self.tick not in self._fired.
IpTest ==
  /\ Running
  /\ pc["reader"] = "ip_test"
  /\ IF tick \notin fired
       THEN /\ pc' = [pc EXCEPT !["reader"] = "ip_add"]
            /\ UNCHANGED res
       ELSE /\ pc' = [pc EXCEPT !["reader"] = "ip_ret"]
            /\ res' = FALSE
  /\ UNCHANGED <<notSched, patched, schedule, tick, fired, history, lock, tmp, ret, key,
                 want, recPressed, expPressed, picked, exported, exited, incs, tkIncs,
                 callTick, callStable, answered, lookups, marks, phase, histReal>>

\* A key query that also advances time when it fires.
IpAddAdvancing ==
  /\ Running
  /\ pc["reader"] = "ip_add"
  /\ fired' = fired \cup {tick}
  /\ tick' = IF tick < MaxTick THEN tick + 1 ELSE 0
  /\ lookups' = Append(lookups, callTick)
  /\ marks' = Append(marks, tick)
  /\ pc' = [pc EXCEPT !["reader"] = "ip_hist"]
  /\ UNCHANGED <<notSched, patched, schedule, history, lock, tmp, ret, key, want, res,
                 recPressed, expPressed, picked, exported, exited, incs, tkIncs,
                 callTick, callStable, answered, phase, histReal>>

\* is_pressed: self._fired.add(self.tick).
IpAdd ==
  /\ Running
  /\ pc["reader"] = "ip_add"
  /\ fired' = fired \cup {tick}
  /\ lookups' = Append(lookups, callTick)
  /\ marks' = Append(marks, tick)
  /\ pc' = [pc EXCEPT !["reader"] = "ip_hist"]
  /\ UNCHANGED <<notSched, patched, schedule, tick, history, lock, tmp, ret, key, want,
                 res, recPressed, expPressed, picked, exported, exited, incs, tkIncs,
                 callTick, callStable, answered, phase, histReal>>

\* is_pressed: self._history.append((self.tick, key)); return True.
IpHist ==
  /\ Running
  /\ pc["reader"] = "ip_hist"
  /\ history' = Append(history, <<tick, key>>)
  /\ res' = TRUE
  /\ pc' = [pc EXCEPT !["reader"] = "ip_ret"]
  /\ UNCHANGED <<notSched, patched, schedule, tick, fired, lock, tmp, ret, key, want,
                 recPressed, expPressed, picked, exported, exited, incs, tkIncs,
                 callTick, callStable, answered, lookups, marks, phase, histReal>>

\* is_pressed: the with block ends and the value goes to the caller.
IpReturn ==
  /\ Running
  /\ pc["reader"] = "ip_ret"
  /\ lock' = NoThread
  /\ pc' = [pc EXCEPT !["reader"] = ret["reader"]]
  /\ ret' = [ret EXCEPT !["reader"] = "none"]
  /\ IF key = BUTTON_REC
       THEN recPressed' = res /\ UNCHANGED expPressed
       ELSE expPressed' = res /\ UNCHANGED recPressed
  /\ answered' = IF callStable /\ schedule[callTick] = key
                   THEN answered \cup {callTick} ELSE answered
  /\ key' = NoKey
  /\ want' = NoKey
  /\ res' = FALSE
  /\ UNCHANGED <<notSched, patched, schedule, tick, fired, history, tmp, picked,
                 exported, exited, incs, tkIncs, callTick, callStable, lookups, marks,
                 phase, histReal>>

\* reader: time.sleep(0.5) after TRACKER.start_tracking().
ReaderStartSleep ==
  /\ Running
  /\ pc["reader"] = "r_init"
  /\ CallSleep("reader", "r_loop")
  /\ UNCHANGED <<notSched, patched, schedule, tick, fired, history, lock, key, want, res,
                 recPressed, expPressed, picked, exported, exited, incs, tkIncs,
                 callTick, callStable, answered, lookups, marks, phase, histReal>>

\* reader: the update-rate throttle, time.sleep(0.01); continue.
ReaderThrottle ==
  /\ Running
  /\ pc["reader"] = "r_loop"
  /\ CallSleep("reader", "r_loop")
  /\ UNCHANGED <<notSched, patched, schedule, tick, fired, history, lock, key, want, res,
                 recPressed, expPressed, picked, exported, exited, incs, tkIncs,
                 callTick, callStable, answered, lookups, marks, phase, histReal>>

\* reader: the update is due; the frame is polled, decoded and grouped into
\* spheres; is_BUTTON_REC_pressed = keyboard.is_pressed(BUTTON_REC).
ReaderAskRec == IsPressedGet(BUTTON_REC, {"r_loop"}, "r_exp")

\* reader: is_BUTTON_EXPORT_pressed = keyboard.is_pressed(BUTTON_EXPORT).
ReaderAskExport == IsPressedGet(BUTTON_EXPORT, {"r_exp"}, "r_branch")

\* reader: record and sleep 0.2, or export, sleep 2 and break, or neither;
\* unless the loop was left, display.update(display_lines) follows the sleep
\* and the loop starts over.
ReaderBranch ==
  /\ Running
  /\ pc["reader"] = "r_branch"
  /\ IF recPressed
       THEN /\ picked' = picked + 1
            /\ CallSleep("reader", "r_loop")
            /\ UNCHANGED exported
       ELSE IF expPressed
         THEN /\ exported' = TRUE
              /\ CallSleep("reader", "r_done")
              /\ UNCHANGED picked
         ELSE /\ pc' = [pc EXCEPT !["reader"] = "r_loop"]
              /\ UNCHANGED <<tmp, ret, picked, exported>>
  /\ UNCHANGED <<notSched, patched, schedule, tick, fired, history, lock, key, want, res,
                 recPressed, expPressed, exited, incs, tkIncs, callTick, callStable,
                 answered, lookups, marks, phase, histReal>>

\* The reader script has ended: the main thread ends and the daemons with it.
ProcessExit ==
  /\ Running
  /\ phase # "real"
  /\ pc["reader"] = "r_done"
  /\ exited' = TRUE
  /\ UNCHANGED <<notSched, patched, schedule, tick, fired, history, lock, pc, tmp, ret,
                 key, want, res, recPressed, expPressed, picked, exported, incs, tkIncs,
                 callTick, callStable, answered, lookups, marks, phase, histReal>>

NextSched ==
  \/ \E th \in Threads : SleepWrite(th)
  \/ TickerSleep
  \/ TickerAcquire
  \/ TickerWrite
  \/ TerminatorSleep
  \/ TerminatorExit
  \/ ReaderStartSleep
  \/ ReaderThrottle
  \/ ReaderAskRec
  \/ ReaderAskExport
  \/ IpTest
  \/ IpAdd
  \/ IpHist
  \/ IpReturn
  \/ ReaderBranch
  \/ ProcessExit

Spec == InitSched /\ [][NextSched]_vars

\* ---------------------------------- the two modes, run one after the other
\* The same schedule and the same reader are run first in real-time mode
\* (time.sleep not patched) and, once that run's reader has finished, again in
\* time-acceleration mode (PATCH_TIME_SLEEP); histReal keeps the first history.
InitModes ==
  /\ area = "sched"
  /\ phase = "real"
  /\ histReal = <<>>
  /\ \E s \in Schedules :
        /\ \E t \in Ticks : s[t] = BUTTON_EXPORT
        /\ HarnessStart(FALSE, s)
  /\ IdleDisp /\ IdleCodec /\ IdleSim /\ IdleLoop

\* The harness is started again on the same schedule, time.sleep patched.
SecondRun ==
  /\ Running
  /\ phase = "real"
  /\ pc["reader"] = "r_done"
  /\ phase' = "accel"
  /\ histReal' = history
  /\ patched' = TRUE
  /\ tick' = 0
  /\ fired' = {}
  /\ history' = <<>>
  /\ lock' = NoThread
  /\ pc' = StartPc
  /\ tmp' = [th \in Threads |-> 0]
  /\ ret' = [th \in Threads |-> "none"]
  /\ key' = NoKey
  /\ want' = NoKey
  /\ res' = FALSE
  /\ recPressed' = FALSE
  /\ expPressed' = FALSE
  /\ picked' = 0
  /\ exported' = FALSE
  /\ incs' = 0
  /\ tkIncs' = 0
  /\ callTick' = 0
  /\ callStable' = TRUE
  /\ answered' = {}
  /\ lookups' = <<>>
  /\ marks' = <<>>
  /\ UNCHANGED <<notSched, schedule, exited>>

NextModes == NextSched \/ SecondRun

SpecModes == InitModes /\ [][NextModes]_vars

\* ---------------------------------------------- properties, scheduler
NoDup(s) == \A i, j \in 1..Len(s) : i # j => s[i] # s[j]
NoDupTicks(h) == \A i, j \in 1..Len(h) : i # j => h[i][1] # h[j][1]

\* C1: over the life of a _KeyboardMock, in every interleaving of the ticker,
\* the patched sleep and the reader's polls, is_pressed returns True at most
\* once for any tick value, and the fired set only grows.  A True return is
\* counted for the tick it looked up in the schedule, for the tick it marked
\* fired or for the tick it logged: the property is taken to fail only when each
\* of the three ways of counting gives some tick two True returns.
C1_FiresOncePerTick ==
  [][ /\ fired \subseteq fired'
      /\ \/ NoDup(lookups')
         \/ NoDup(marks')
         \/ NoDupTicks(history') ]_vars

\* C2: a call of is_pressed(k) during which tick stays at t: if k is the key
\* scheduled at t and no such call was made at t before, it returns True and
\* t is marked fired; if such a call was made at t before, it returns False
\* whatever k is.
C2_FirstTrueThenFalse ==
  (pc["reader"] = "ip_ret" /\ callStable) =>
     /\ (schedule[callTick] = key /\ callTick \notin answered)
           => (res /\ callTick \in fired)
     /\ (callTick \in answered) => ~res

\* C3: no step of is_pressed changes tick or the schedule; tick changes only
\* in the store of the ticker's increment or of the wait primitive's
\* increment; the schedule never changes.
C3_QueriesLeaveTime ==
  [][ /\ (/\ pc'["reader"] # pc["reader"]
          /\ \/ pc["reader"] \in IpLocs
             \/ pc'["reader"] \in IpLocs)
         => (tick' = tick /\ schedule' = schedule)
      /\ (tick' # tick)
         => \E th \in Threads : /\ pc[th] \in {"sl_write", "tk_write"}
                                /\ pc'[th] # pc[th]
      /\ schedule' = schedule ]_vars

\* C3 witness: is_pressed is about to return True after time has advanced,
\* and an earlier call has returned True as well.
C3_Witness ==
  /\ tick > 0
  /\ pc["reader"] = "ip_ret"
  /\ res
  /\ Len(history) >= 2

\* C4: tick starts at 0 and never takes a value smaller than one it held
\* before, in any interleaving of the ticker, the patched sleep and is_pressed.
C4_TickMonotonic == (tick = 0) /\ [][tick' >= tick]_vars

\* C5: for the same schedule and the same reader, the finished run in
\* time-acceleration mode has reported the same sequence of (tick, key)
\* events as the finished run in real-time mode.
C5_SameEventsInBothModes ==
  (phase = "accel" /\ pc["reader"] = "r_done") => history = histReal


\* The positions at which a thread is between the load and the store of
\* "tick += 1".
IncLocs == {"sl_write", "tk_write"}

\* C21: every read and every write of tick and of the fired set is made by a
\* thread that holds the scheduler's mutex, in both modes: a thread that
\* loads tick for an increment, stores the incremented value or runs a
\* statement of the trigger check holds the lock when the step begins or
\* has taken it in that step.
C21_AccessUnderLock ==
  [][ \A th \in Threads :
        (/\ pc'[th] # pc[th]
         /\ \/ pc[th] \in IncLocs \cup {"ip_test", "ip_add", "ip_hist"}
            \/ pc'[th] \in IncLocs \cup {"ip_test", "ip_add", "ip_hist"})
        => (lock = th \/ lock' = th) ]_vars

\* C22: a trigger check is atomic with respect to increments of tick: in
\* one is_pressed call the tick looked up in the schedule, the tick tested
\* against the fired set, the tick added to the fired set and the tick
\* logged are one value, the current value of tick, also while another
\* thread advances tick.
C22_TriggerCheckAtomic ==
  /\ (pc["reader"] \in {"ip_test", "ip_add", "ip_hist"}) => tick = callTick
  /\ \A i \in 1..Len(marks) : marks[i] = lookups[i]
  /\ \A i \in 1..Len(history) : history[i][1] = lookups[i]

\* C23: in time-acceleration mode no increment is lost: after any
\* interleaving in which the wait primitive has completed w increments and
\* the ticker c locked increments, tick equals w + c.
C23_NoLostIncrement ==
  (patched /\ incs <= MaxTick) => tick = incs

\* C24: the background cadence thread advances tick by exactly 1 per
\* iteration of its loop, also when time.sleep has been replaced by the
\* tick-incrementing wrapper: when the ticker finishes an iteration it has
\* stored to tick exactly once in that iteration.
C24_OneTickPerPeriod ==
  [][ (pc["ticker"] = "tk_write" /\ pc'["ticker"] = "tk_sleep")
        => tkIncs' = 1 ]_vars
\* ====================================================================
\* SmoothDisplay (sim_runner.py and the reader)
\* ====================================================================
\* What is written to sys.stdout is a sequence of items: the escapes, the
\* text of a line, and the newline.
HOME == "ESC[H"
CLR == "ESC[K"
NL == "NL"
CLS == "clear"

\* The texts a line of a frame can hold, and the frames handed to update.
Lines == {"a", "b"}
Frames == UNION {[1..n -> Lines] : n \in 0..MaxLines}

\* for line in lines: write('\033[K'); write(line + '\n')
RECURSIVE WriteLines(_)
WriteLines(lines) ==
  IF lines = <<>> THEN <<>>
  ELSE <<CLR, Head(lines), NL>> \o WriteLines(Tail(lines))

\* for _ in range(k): write('\033[K\n')
RECURSIVE ClearRows(_)
ClearRows(k) == IF k <= 0 THEN <<>> ELSE <<CLR, NL>> \o ClearRows(k - 1)

\* if len(lines) < len(self.last_lines): clear the rows left over
TrailingClears(lines, last) ==
  IF Len(lines) < Len(last) THEN ClearRows(Len(last) - Len(lines)) ELSE <<>>

\* An update that clears one row more than the frame has shrunk by.
UpdateOutputOneMore(lines, last) ==
  <<HOME>> \o WriteLines(lines)
    \o (IF Len(lines) <= Len(last)
          THEN ClearRows(Len(last) - Len(lines) + 1) ELSE <<>>)

\* An update that compares texts: a line equal to the previous frame's line
\* at the same index is stepped over instead of being rewritten.
RECURSIVE WriteChanged(_, _)
WriteChanged(lines, last) ==
  IF lines = <<>> THEN <<>>
  ELSE (IF last # <<>> /\ Head(last) = Head(lines)
          THEN <<NL>> ELSE <<CLR, Head(lines), NL>>)
       \o WriteChanged(Tail(lines), IF last = <<>> THEN <<>> ELSE Tail(last))

UpdateOutputTextDiff(lines, last) ==
  <<HOME>> \o WriteChanged(lines, last) \o TrailingClears(lines, last)

\* Everything update(lines) writes when last_lines is last.
UpdateOutput(lines, last) ==
  <<HOME>> \o WriteLines(lines) \o TrailingClears(lines, last)

\* What is left of the frame before the last one under a shorter frame.
Older(lines, last) ==
  IF Len(lines) < Len(last) THEN SubSeq(last, Len(lines) + 1, Len(last))
  ELSE <<>>

\* An update that keeps the rows of older frames it has cleared.
UpdateKeepingOlder(d, lines) ==
  /\ area = "disp"
  /\ out' = [out EXCEPT ![d] = UpdateOutput(lines, last_lines[d])]
  /\ last_lines' = [last_lines EXCEPT ![d] = lines \o Older(lines, last_lines[d])]
  /\ prevLines' = [prevLines EXCEPT ![d] = last_lines[d]]
  /\ lastOp' = [lastOp EXCEPT ![d] = "update"]
  /\ prevOp' = [prevOp EXCEPT ![d] = lastOp[d]]
  /\ argLines' = [argLines EXCEPT ![d] = lines]
  /\ UNCHANGED <<notDisp, enabled>>

\* SmoothDisplay.update(lines)
Update(d, lines) ==
  /\ area = "disp"
  /\ IF ~enabled[d]
       THEN UNCHANGED <<out, last_lines, prevLines, lastOp, prevOp, argLines>>
       ELSE /\ out' = [out EXCEPT ![d] = UpdateOutput(lines, last_lines[d])]
            /\ last_lines' = [last_lines EXCEPT ![d] = lines]
            /\ prevLines' = [prevLines EXCEPT ![d] = last_lines[d]]
            /\ lastOp' = [lastOp EXCEPT ![d] = "update"]
            /\ prevOp' = [prevOp EXCEPT ![d] = lastOp[d]]
            /\ argLines' = [argLines EXCEPT ![d] = lines]
  /\ UNCHANGED <<notDisp, enabled>>

\* SmoothDisplay.clear_and_reset()
ClearAndReset(d) ==
  /\ area = "disp"
  /\ out' = [out EXCEPT ![d] = <<CLS>>]
  /\ last_lines' = [last_lines EXCEPT ![d] = <<>>]
  /\ prevLines' = [prevLines EXCEPT ![d] = last_lines[d]]
  /\ lastOp' = [lastOp EXCEPT ![d] = "reset"]
  /\ prevOp' = [prevOp EXCEPT ![d] = lastOp[d]]
  /\ UNCHANGED <<notDisp, enabled, argLines>>

\* The runner clears its screen (sim_runner.py line 78) and never updates it.
RunnerClear == ClearAndReset("runner")

\* The reader clears the screen, then shows the start-up, the frame of each
\* iteration and the final frame.
ReaderClear == ClearAndReset("reader")
ReaderUpdate == \E lines \in Frames : Update("reader", lines)

InitDisp ==
  /\ area = "disp"
  /\ IdleSched /\ IdleDisp /\ IdleCodec /\ IdleSim /\ IdleLoop

NextDisp == RunnerClear \/ ReaderClear \/ ReaderUpdate

SpecDisplay == InitDisp /\ [][NextDisp]_vars

\* Number of items of s equal to x.
RECURSIVE Count(_, _)
Count(s, x) ==
  IF s = <<>> THEN 0 ELSE (IF Head(s) = x THEN 1 ELSE 0) + Count(Tail(s), x)

Max(a, b) == IF a >= b THEN a ELSE b

\* C6: after update(lines) with n = len(lines) on an instance that held p
\* lines, the output is the n lines (three items each after the home escape)
\* followed by exactly max(0, p - n) trailing clears and nothing else; with
\* p = 5 and n = 2 that is three trailing clears.
C6_TrailingClears ==
  \A d \in Displays : lastOp[d] = "update" =>
    LET n == Len(last_lines[d])
        p == Len(prevLines[d])
        k == Max(0, p - n)
        tail == SubSeq(out[d], 3 * n + 2, Len(out[d]))
    IN /\ Len(out[d]) = 1 + 3 * n + 2 * k
       /\ \A i \in 1..n : out[d][3 * i] = last_lines[d][i]
       /\ Len(tail) = 2 * k
       /\ \A j \in 1..k : tail[2 * j - 1] = CLR /\ tail[2 * j] = NL
       /\ (p = 5 /\ n = 2) => Count(tail, CLR) = 3

C6_Witness ==
  /\ lastOp["reader"] = "update"
  /\ Len(prevLines["reader"]) = 5
  /\ Len(last_lines["reader"]) = 2
  /\ Count(SubSeq(out["reader"], 8, Len(out["reader"])), CLR) = 3

\* C7: the update is positional and compares no text: the output is the home
\* escape, then for every line of the new frame a clear and the line (also
\* where the previous frame had the same text at that index), then the
\* trailing clears; any previous frame of the same length gives the same
\* output.
C7_PositionalDiff ==
  \A d \in Displays : lastOp[d] = "update" =>
    LET n == Len(last_lines[d])
        p == Len(prevLines[d])
    IN /\ Len(out[d]) >= 1 + 3 * n
       /\ out[d][1] = HOME
       /\ \A i \in 1..n :
            /\ out[d][3 * i - 1] = CLR
            /\ out[d][3 * i] = last_lines[d][i]
            /\ out[d][3 * i + 1] = NL
       /\ Count(out[d], CLR) = n + Max(0, p - n)
       /\ \A f \in Frames :
            Len(f) = p => UpdateOutput(last_lines[d], f) = out[d]

C7_Witness ==
  /\ lastOp["reader"] = "update"
  /\ Len(last_lines["reader"]) >= 2
  /\ Len(prevLines["reader"]) >= 2
  /\ last_lines["reader"][1] = prevLines["reader"][1]
  /\ last_lines["reader"][2] # prevLines["reader"][2]
  /\ out["reader"][3] = last_lines["reader"][1]


\* C25: the renderer keeps only the immediately previous frame: after every
\* update(lines) last_lines is exactly the lines just passed, after
\* clear_and_reset last_lines is empty, and the first update after a reset
\* writes the new lines and no trailing clear.
C25_OnlyPreviousFrame ==
  \A d \in Displays :
    /\ (lastOp[d] = "update") => last_lines[d] = argLines[d]
    /\ (lastOp[d] = "reset") => last_lines[d] = <<>>
    /\ (lastOp[d] = "update" /\ prevOp[d] = "reset") =>
          /\ Len(out[d]) = 1 + 3 * Len(argLines[d])
          /\ Count(out[d], CLR) = Len(argLines[d])

\* C25 witness: the reader's screen was reset and a frame of two lines has
\* been shown since, written as the home escape and two lines; the runner's
\* instance has been reset as well.
C25_Witness ==
  /\ lastOp["reader"] = "update"
  /\ prevOp["reader"] = "reset"
  /\ Len(argLines["reader"]) = 2
  /\ last_lines["reader"] = argLines["reader"]
  /\ Len(out["reader"]) = 7
  /\ lastOp["runner"] = "reset"
\* ====================================================================
\* The TX coordinate codec: format_coord / _num and TX0008_pos_str_to_list
\* ====================================================================
DigitChars == <<"0", "1", "2", "3", "4", "5", "6", "7", "8", "9">>
SignChars == {"+", "-"}
SPACE == " "
BAR == "|"
POINT == "."

Abs(n) == IF n >= 0 THEN n ELSE -n
Min(a, b) == IF a <= b THEN a ELSE b

\* s[:k] and s[k:] of Python: the slice ends where the string ends.
Take(s, k) == SubSeq(s, 1, Min(k, Len(s)))
Drop(s, k) == SubSeq(s, Min(k, Len(s)) + 1, Len(s))

\* The decimal digits of n >= 0, as "d" formats them.
RECURSIVE DecStr(_)
DecStr(n) ==
  IF n < 10 THEN <<DigitChars[n + 1]>>
  ELSE DecStr(n \div 10) \o <<DigitChars[(n % 10) + 1]>>

RECURSIVE Fill(_, _)
Fill(c, k) == IF k <= 0 THEN <<>> ELSE <<c>> \o Fill(c, k - 1)

\* A formatter that keeps only the last width digits of a wider number.
FormatDCut(n, width) ==
  LET d == Fill(SPACE, width - Len(DecStr(n))) \o DecStr(n)
  IN SubSeq(d, Len(d) - width + 1, Len(d))

\* f"{n:{width}d}" for n >= 0: right-aligned in width columns, the fill
\* character being the space; never cut when longer.
FormatD(n, width) == Fill(SPACE, width - Len(DecStr(n))) \o DecStr(n)

\* format_coord(n, width, sign) of virtual_spheres.py, _num of sim_runner.py
\* and improved_fake_data.py.
format_coord(n, width, sign) ==
  LET s == FormatD(Abs(n), width)
  IN IF sign THEN <<IF n >= 0 THEN "+" ELSE "-">> \o s ELSE s

\* sep.join(chunks)
RECURSIVE Join(_, _)
Join(chunks, sep) ==
  IF chunks = <<>> THEN <<>>
  ELSE IF Len(chunks) = 1 THEN chunks[1]
  ELSE chunks[1] \o <<sep>> \o Join(Tail(chunks), sep)

TXRESP_OK == <<"T", "X", "R", "E", "S", "P", "|", "O", "K", "|">>
BAR_END == <<"|", "E", "N", "D">>

\* chunks = [format_coord(c) for c in coords]
Chunks(coords, width) ==
  [i \in 1..Len(coords) |-> format_coord(coords[i], width, TRUE)]

\* "TXRESP|OK|" + "|".join(chunks) + "|END"
WireFrame(chunks) == TXRESP_OK \o Join(chunks, BAR) \o BAR_END

\* A decoder that takes only "+" for a sign.
RECURSIVE TX0008_PlusOnly(_, _)
TX0008_PlusOnly(str_input, len_digit) ==
  IF Len(str_input) = 0 THEN <<>>
  ELSE IF str_input[1] = "+"
    THEN LET str_coord == Take(str_input, len_digit + 1)
         IN <<Take(str_coord, 5) \o <<POINT>> \o Drop(str_coord, 5)>>
              \o TX0008_PlusOnly(Drop(str_input, len_digit + 1), len_digit)
    ELSE TX0008_PlusOnly(Drop(str_input, 1), len_digit)

\* TX0008_pos_str_to_list(str_input, len_digit) of the reader.
RECURSIVE TX0008_pos_str_to_list(_, _)
TX0008_pos_str_to_list(str_input, len_digit) ==
  IF Len(str_input) = 0 THEN <<>>
  ELSE IF str_input[1] \in SignChars
    THEN LET str_coord == Take(str_input, len_digit + 1)
             str_coord_point == Take(str_coord, 5) \o <<POINT>> \o Drop(str_coord, 5)
         IN <<str_coord_point>>
              \o TX0008_pos_str_to_list(Drop(str_input, len_digit + 1), len_digit)
    ELSE TX0008_pos_str_to_list(Drop(str_input, 1), len_digit)

\* ------------------------------------------------------------ inputs
CoordValues == {0, 7, -7, 50000, 100000, -200000, 999999, -1234567}
CoordLists == UNION {[1..n -> CoordValues] : n \in 0..MaxVals}
EncWidths == {2, NUM_DIGIT}
DecWidths == {0, 2, NUM_DIGIT}
RawChars == {"+", "-", "1", "|"}
RawStrings == UNION {[1..n -> RawChars] : n \in 0..MaxRaw}

InitCodec ==
  /\ area = "codec"
  /\ IdleSched /\ IdleDisp /\ IdleSim /\ IdleLoop
  /\ cToks = <<>>
  /\ cOut = <<>>
  /\ cRest = <<>>
  /\ \/ /\ cStage = "values"
        /\ cVals \in CoordLists
        /\ cWidth \in EncWidths
        /\ cStr = <<>>
     \/ /\ cStage = "raw"
        /\ cVals = <<>>
        /\ cWidth \in DecWidths
        /\ cStr \in RawStrings

\* The simulation side builds the frame of the integers.
Encode ==
  /\ area = "codec"
  /\ cStage = "values"
  /\ cToks' = Chunks(cVals, cWidth)
  /\ cStr' = WireFrame(Chunks(cVals, cWidth))
  /\ cStage' = "encoded"
  /\ UNCHANGED <<notCodec, cVals, cWidth, cOut, cRest>>

\* The reader decodes the string it was handed.
Decode ==
  /\ area = "codec"
  /\ cStage \in {"raw", "encoded"}
  /\ cOut' = TX0008_pos_str_to_list(cStr, cWidth)
  /\ cStage' = IF cStage = "raw" THEN "decoded_raw" ELSE "decoded"
  /\ UNCHANGED <<notCodec, cVals, cWidth, cToks, cStr, cRest>>

\* str_input = str_input[len_digit + 1:] without the sign's own position.
ConsumedWithoutSign(str_input, len_digit) == Drop(str_input, len_digit)

\* str_input = str_input[len_digit + 1:]
Consumed(str_input, len_digit) == Drop(str_input, len_digit + 1)

\* The point put after six characters: the sign and five digits.
WithPointAfterSix(str_coord) ==
  Take(str_coord, 6) \o <<POINT>> \o Drop(str_coord, 6)

\* str_coord_point = str_coord[:5] + "." + str_coord[5:]
WithPoint(str_coord) == Take(str_coord, 5) \o <<POINT>> \o Drop(str_coord, 5)

\* The same call followed through its loop.  The call begins:
\* list_position = [].
ScanBegin ==
  /\ area = "codec"
  /\ cStage \in {"raw", "encoded"}
  /\ cRest' = cStr
  /\ cOut' = <<>>
  /\ cStage' = IF cStage = "raw" THEN "scanning_raw" ELSE "scanning"
  /\ UNCHANGED <<notCodec, cVals, cWidth, cToks, cStr>>

\* One test of the while condition: the return when str_input is empty,
\* otherwise one pass through the loop body.
ScanStep ==
  /\ area = "codec"
  /\ cStage \in {"scanning", "scanning_raw"}
  /\ IF Len(cRest) = 0
       THEN /\ cStage' = IF cStage = "scanning_raw" THEN "decoded_raw" ELSE "decoded"
            /\ UNCHANGED <<cRest, cOut>>
       ELSE /\ cStage' = cStage
            /\ IF cRest[1] \in SignChars
                 THEN /\ cOut' = Append(cOut, WithPoint(Take(cRest, cWidth + 1)))
                      /\ cRest' = Consumed(cRest, cWidth)
                 ELSE /\ cOut' = cOut
                      /\ cRest' = Drop(cRest, 1)
  /\ UNCHANGED <<notCodec, cVals, cWidth, cToks, cStr>>

NextCodec == Encode \/ Decode \/ ScanBegin \/ ScanStep

SpecCodec == InitCodec /\ [][NextCodec]_vars

RECURSIVE Pow10(_)
Pow10(k) == IF k <= 0 THEN 1 ELSE 10 * Pow10(k - 1)

\* The number a sequence of digit characters writes; -1 when a character
\* is no digit.
DigitValue(c) ==
  IF \E d \in 1..10 : DigitChars[d] = c
    THEN (CHOOSE d \in 1..10 : DigitChars[d] = c) - 1 ELSE -1

RECURSIVE DigitsValue(_)
DigitsValue(s) ==
  IF s = <<>> THEN 0
  ELSE LET d == DigitValue(s[Len(s)])
           r == DigitsValue(SubSeq(s, 1, Len(s) - 1))
       IN IF d < 0 \/ r < 0 THEN -1 ELSE 10 * r + d

ExampleVals == <<100000, -200000, 50000>>
ExampleFrame ==
  TXRESP_OK \o <<"+", "1", "0", "0", "0", "0", "0", "|",
                 "-", "2", "0", "0", "0", "0", "0", "|",
                 "+", "0", "5", "0", "0", "0", "0">> \o BAR_END

\* C8: for every integer v with abs(v) < 10^N the encoder returns N+1
\* characters: "+" when v >= 0, otherwise "-", followed by N decimal digits
\* that write abs(v) with leading zeros; the integers 100000, -200000, 50000
\* with N = 6 give the frame TXRESP|OK|+100000|-200000|+050000|END.
C8_SignAndZeroPaddedDigits ==
  cStage \in {"encoded", "decoded"} =>
    /\ \A i \in 1..Len(cVals) : Abs(cVals[i]) < Pow10(cWidth) =>
         /\ Len(cToks[i]) = cWidth + 1
         /\ cToks[i][1] = (IF cVals[i] >= 0 THEN "+" ELSE "-")
         /\ DigitsValue(Tail(cToks[i])) = Abs(cVals[i])
    /\ (cVals = ExampleVals /\ cWidth = NUM_DIGIT) => cStr = ExampleFrame

\* The positions of str_input, from position i on, at which a left-to-right
\* scan stands on a sign character when every sign met at the scan position
\* takes the scan len_digit + 1 positions further and every other character
\* one position further.
RECURSIVE SignPositions(_, _, _)
SignPositions(s, N, i) ==
  IF i > Len(s) THEN <<>>
  ELSE IF s[i] \in SignChars THEN <<i>> \o SignPositions(s, N, i + N + 1)
  ELSE SignPositions(s, N, i + 1)

WithoutPoint(e) == SelectSeq(e, LAMBDA c : c # POINT)

\* C10: the decoder scans left to right; a '+' or '-' at the scan position
\* is consumed with the next N characters (as many of them as the input still
\* has) and gives one output entry, every other character at the scan
\* position is skipped and gives none: the outputs are, in input order, the
\* tokens that start at the sign characters the scan meets, one per such sign.
C10_OneEntryPerScannedSign ==
  cStage \in {"decoded", "decoded_raw"} =>
    LET ps == SignPositions(cStr, cWidth, 1)
    IN /\ Len(cOut) = Len(ps)
       /\ \A j \in 1..Len(ps) :
            WithoutPoint(cOut[j]) =
              SubSeq(cStr, ps[j], Min(ps[j] + cWidth, Len(cStr)))
       /\ (\A i \in 1..Len(cStr) : cStr[i] \notin SignChars) => cOut = <<>>

C10_Witness ==
  /\ cStage = "decoded_raw"
  /\ Len(cStr) >= 1
  /\ cStr[1] \notin SignChars
  /\ Len(cOut) >= 1
  /\ Len(cOut) < Len(SelectSeq(cStr, LAMBDA c : c \in SignChars))

Scanning == cStage \in {"scanning", "scanning_raw"}

\* C11: decoding is total.  For every input (empty, without a sign, with
\* framing characters, ending inside a token) and every width N >= 0, each
\* test of the loop condition either returns the list or ends a pass that
\* has shortened the rest of the input, so the call returns after at most
\* len(str_input) passes; the passes read only the first character of a
\* non-empty rest and slices, so none raises, and what is returned is the
\* list the call computes, of at most one entry per input character.
C11_DecodingIsTotal ==
  [][ Scanning =>
        /\ Len(cRest) > 0 =>
              /\ Len(cRest') < Len(cRest)
              /\ cStage' = cStage
              /\ Len(cOut') \in {Len(cOut), Len(cOut) + 1}
        /\ Len(cRest) = 0 =>
              /\ cStage' \in {"decoded", "decoded_raw"}
              /\ cOut' = cOut
              /\ cOut = TX0008_pos_str_to_list(cStr, cWidth)
              /\ Len(cOut) <= Len(cStr) ]_vars

C11_Witness ==
  /\ cStage = "scanning_raw"
  /\ cWidth = 2
  /\ Len(cStr) = 4
  /\ cStr[1] \notin SignChars
  /\ Len(cRest) = 2
  /\ cRest[1] \in SignChars

\* C12: an input that ends inside a token (a sign followed by fewer than N
\* characters) gives no entry for that token: every entry of the output is a
\* token with its full N characters after the sign, and there are as many
\* entries as scanned signs that have N characters after them.
C12_TruncatedTokenDropped ==
  cStage \in {"decoded", "decoded_raw"} =>
    LET ps == SignPositions(cStr, cWidth, 1)
        full == SelectSeq(ps, LAMBDA p : p + cWidth <= Len(cStr))
    IN /\ Len(cOut) = Len(full)
       /\ \A j \in 1..Len(cOut) : Len(WithoutPoint(cOut[j])) = cWidth + 1

\* The token the j-th scanned sign of the decoded string starts.
ScannedToken(j) ==
  LET p == SignPositions(cStr, cWidth, 1)[j]
  IN SubSeq(cStr, p, Min(p + cWidth, Len(cStr)))

\* C13 as stated: each decoded entry is the consumed token with the point
\* after the 5th digit of the run: for a 6-digit field the sign, five
\* digits, '.', and the last digit.
C13_PointAfterFifthDigit ==
  (cStage \in {"decoded", "decoded_raw"} /\ cWidth = NUM_DIGIT) =>
    \A j \in 1..Len(cOut) :
      LET tok == ScannedToken(j)
      IN Len(tok) = NUM_DIGIT + 1 =>
           /\ Len(cOut[j]) = NUM_DIGIT + 2
           /\ SubSeq(cOut[j], 1, 6) = SubSeq(tok, 1, 6)
           /\ cOut[j][7] = POINT
           /\ cOut[j][8] = tok[7]

\* C13 amended: each decoded entry is the consumed token with the point
\* after its 5th character, the sign counted: for a 6-digit field the sign,
\* four digits, '.', and the last two digits; a consumed token of fewer than
\* five characters has the point at its end.
C13_PointAfterFifthCharacter ==
  cStage \in {"decoded", "decoded_raw"} =>
    \A j \in 1..Len(cOut) :
      LET tok == ScannedToken(j)
          at == Min(5, Len(tok)) + 1
      IN /\ Len(cOut[j]) = Len(tok) + 1
         /\ \A i \in 1..Len(cOut[j]) :
              cOut[j][i] = IF i < at THEN tok[i]
                           ELSE IF i = at THEN POINT ELSE tok[i - 1]
         /\ (cWidth = NUM_DIGIT /\ Len(tok) = NUM_DIGIT + 1) =>
              /\ cOut[j][6] = POINT
              /\ SubSeq(cOut[j], 7, 8) = SubSeq(tok, 6, 7)

C13_Witness ==
  /\ cStage = "decoded"
  /\ cWidth = NUM_DIGIT
  /\ Len(cOut) >= 2
  /\ Len(cOut[2]) = 8
  /\ cOut[2][6] = POINT
  /\ cOut[2][7] # POINT

\* C14: round trip.  For a list of integers that all fit N digits, decoding
\* the frame built from their tokens with the same N gives as many entries
\* as integers, in the same order, and entry i without its point is the
\* numeral of integer i: its sign, then digits that write its magnitude.
C14_RoundTrip ==
  (cStage = "decoded" /\ \A i \in 1..Len(cVals) : Abs(cVals[i]) < Pow10(cWidth)) =>
    /\ Len(cOut) = Len(cVals)
    /\ \A i \in 1..Len(cVals) :
         LET numeral == WithoutPoint(cOut[i])
         IN /\ numeral[1] = (IF cVals[i] >= 0 THEN "+" ELSE "-")
            /\ DigitsValue(Tail(numeral)) = Abs(cVals[i])

\* ====================================================================
\* The sphere simulator (virtual_spheres.py) and the dynamic generator of
\* sim_runner.py
\* ====================================================================
\* Positions are computed in half units, so that int() has something to cut.
\* The time-dependent angle takes the quarter turns; sines take -1, 0, 1.
UnitCircle == {<<1, 0>>, <<0, 1>>, <<-1, 0>>, <<0, -1>>}
SinValues == {-1, 0, 1}

\* int(v) of the value v2 / 2: truncation toward zero.
Trunc2(v2) == IF v2 >= 0 THEN v2 \div 2 ELSE -((-v2) \div 2)

\* Offsets in which a motion type without a branch of its own moves along x.
Offsets2UnknownMoves(cfg) ==
  IF cfg.motion_type = "static" THEN {<<0, 0, 0>>}
  ELSE {<<2 * cfg.amplitude * s, 0, 0>> : s \in SinValues}

\* (dx, dy, dz) of get_position, in half units, per motion type.
Offsets2(cfg) ==
  LET A == cfg.amplitude
      m == cfg.motion_type
  IN IF m = "static" THEN {<<0, 0, 0>>}
     ELSE IF m = "circle_xy"
       THEN {<<2 * A * u[1], 2 * A * u[2], 0>> : u \in UnitCircle}
     ELSE IF m = "circle_xz"
       THEN {<<2 * A * u[1], 0, 2 * A * u[2]>> : u \in UnitCircle}
     ELSE IF m = "wave_x"
       THEN {<<2 * A * s, 0, 0>> : s \in SinValues}
     ELSE IF m = "wave_xyz"
       THEN {<<2 * A * s[1], 2 * A * s[2], 2 * A * s[3]>> :
               s \in SinValues \X SinValues \X SinValues}
     ELSE IF m = "spiral"
       THEN {<<2 * r * u[1], 2 * r * u[2], A * s>> :
               r \in {A, 2 * A}, u \in UnitCircle, s \in SinValues}
     ELSE IF m = "random_walk"
       THEN {<<2 * A * s[1], 2 * A * s[2], ((6 * A) \div 10) * s[3]>> :
               s \in SinValues \X SinValues \X SinValues}
     ELSE {<<0, 0, 0>>}

\* The three noise() values of one call, each uniform in [-noise, noise]:
\* sampled at the ends of the range and half a unit inside it.
Noise2(cfg) ==
  IF cfg.noise = 0 THEN {<<0, 0, 0>>}
  ELSE {<<1 - 2 * cfg.noise, 2 * cfg.noise, 1>>,
        <<2 * cfg.noise, 1 - 2 * cfg.noise, -2 * cfg.noise>>}

\* VirtualSphere.get_position: the positions a sphere can report.
get_position(cfg) ==
  {<<Trunc2(2 * cfg.center[1] + cfg.half[1] + o[1] + nz[1]),
     Trunc2(2 * cfg.center[2] + cfg.half[2] + o[2] + nz[2]),
     Trunc2(2 * cfg.center[3] + cfg.half[3] + o[3] + nz[3])>> :
     o \in Offsets2(cfg), nz \in Noise2(cfg)}

\* SphereSimulator.get_all_positions: one position per sphere, in the order
\* of self.spheres.
RECURSIVE get_all_positions(_)
get_all_positions(sph) ==
  IF sph = <<>> THEN {<<>>}
  ELSE {<<p>> \o rest : p \in get_position(Head(sph)),
                        rest \in get_all_positions(Tail(sph))}

\* A flattening that puts z before y.
RECURSIVE FlattenSwapped(_)
FlattenSwapped(ps) ==
  IF ps = <<>> THEN <<>>
  ELSE <<Head(ps)[1], Head(ps)[3], Head(ps)[2]>> \o FlattenSwapped(Tail(ps))

\* for x, y, z in positions: coords.extend([x, y, z])
RECURSIVE Flatten(_)
Flatten(ps) ==
  IF ps = <<>> THEN <<>>
  ELSE <<Head(ps)[1], Head(ps)[2], Head(ps)[3]>> \o Flatten(Tail(ps))

\* The configurations spheres are added with.  A center is a tuple of
\* floats: center holds its whole part and half what it has beyond that, in
\* half units.
SimConfigs ==
  { [center |-> <<100000, -200000, 50000>>, motion_type |-> "static",
     amplitude |-> 5000, noise |-> 0,
     half |-> <<0, 0, 0>>],
    [center |-> <<123456, -654321, 111222>>, motion_type |-> "circle_xy",
     amplitude |-> 40000, noise |-> 0,
     half |-> <<0, 0, 0>>],
    [center |-> <<0, 0, 0>>, motion_type |-> "circle_xz",
     amplitude |-> 50000, noise |-> 0,
     half |-> <<0, 0, 0>>],
    [center |-> <<223344, 334455, -445566>>, motion_type |-> "wave_x",
     amplitude |-> 30000, noise |-> 0,
     half |-> <<0, 0, 0>>],
    [center |-> <<-555444, 666333, 777222>>, motion_type |-> "circle_yz",
     amplitude |-> 5000, noise |-> 0,
     half |-> <<0, 0, 0>>],
    [center |-> <<999950, -999950, 0>>, motion_type |-> "static",
     amplitude |-> 5000, noise |-> 100,
     half |-> <<0, 0, 0>>],
    [center |-> <<-5, 7, 123456>>, motion_type |-> "figure8_xy",
     amplitude |-> 100000, noise |-> 0,
     half |-> <<-1, 1, 0>>] }

\* DynamicCoordinateGenerator of sim_runner.py: the three base points, and
\* the samples of (dx, dy, dz) and of the three noise() values.
base_coords ==
  << <<123456, -654321, 111222>>, <<223344, 334455, -445566>>,
     <<-555444, 666333, 777222>> >>
DynOffsets == {<<5000, 0, 0>>, <<0, -5000, 1000>>}
DynNoise == {<<-100, 100, 37>>}
DynPoint(i) ==
  {<<base_coords[i][1] + o[1] + nz[1], base_coords[i][2] + o[2] + nz[2],
     base_coords[i][3] + o[3] + nz[3]>> : o \in DynOffsets, nz \in DynNoise}

InitSim ==
  /\ area = "sim"
  /\ IdleSched /\ IdleDisp /\ IdleCodec /\ IdleSim /\ IdleLoop

\* An add that puts the new sphere in front of the others.
AddSphereInFront ==
  /\ area = "sim"
  /\ Len(spheres) < MaxSpheres
  /\ \E cfg \in SimConfigs : spheres' = <<cfg>> \o spheres
  /\ positions' = <<>>
  /\ response' = <<>>
  /\ base_response' = <<>>
  /\ simOp' = "add"
  /\ scenario' = <<>>
  /\ created' = <<>>
  /\ UNCHANGED <<notSim>>

\* SphereSimulator.add_sphere(config)
AddSphere ==
  /\ area = "sim"
  /\ Len(spheres) < MaxSpheres
  /\ \E cfg \in SimConfigs : spheres' = Append(spheres, cfg)
  /\ positions' = <<>>
  /\ response' = <<>>
  /\ base_response' = <<>>
  /\ simOp' = "add"
  /\ scenario' = <<>>
  /\ created' = <<>>
  /\ UNCHANGED <<notSim>>

\* SphereSimulator.clear()
Clear ==
  /\ area = "sim"
  /\ spheres' = <<>>
  /\ positions' = <<>>
  /\ response' = <<>>
  /\ base_response' = <<>>
  /\ simOp' = "clear"
  /\ scenario' = <<>>
  /\ created' = <<>>
  /\ UNCHANGED <<notSim>>

\* SphereSimulator.get_all_positions()
GetAllPositions ==
  /\ area = "sim"
  /\ positions' \in get_all_positions(spheres)
  /\ response' = <<>>
  /\ base_response' = <<>>
  /\ simOp' = "positions"
  /\ scenario' = <<>>
  /\ created' = <<>>
  /\ UNCHANGED <<notSim, spheres>>

\* generate_tx_response(simulator)
GenerateTxResponse ==
  /\ area = "sim"
  /\ positions' \in get_all_positions(spheres)
  /\ response' = WireFrame(Chunks(Flatten(positions'), DEFAULT_WIDTH))
  /\ base_response' = <<>>
  /\ simOp' = "generate"
  /\ scenario' = <<>>
  /\ created' = <<>>
  /\ UNCHANGED <<notSim, spheres>>

\* make_dynamic_tx_string() of sim_runner.py
MakeDynamicTxString ==
  /\ area = "sim"
  /\ \E p1 \in DynPoint(1), p2 \in DynPoint(2), p3 \in DynPoint(3) :
       positions' = <<p1, p2, p3>>
  /\ response' = WireFrame(Chunks(Flatten(positions'), DEFAULT_WIDTH))
  /\ base_response' = <<>>
  /\ simOp' = "dynamic"
  /\ scenario' = <<>>
  /\ created' = <<>>
  /\ UNCHANGED <<notSim, spheres>>

\* improved_fake_data.py: the centers of the three trajectories, and the
\* samples of what the circle, the z jitter and the noise add to a center,
\* after int().
trajectories ==
  << <<123456, -654321, 111222>>, <<223344, 334455, -445566>>,
     <<-555444, 666333, 777222>> >>
FakeOffsets == {<<0, 0, 0>>, <<59, -9, 14>>, <<-40, 50, -3>>}

\* vals of make_fake_tx_string(tick, num_spheres), grouped by sphere:
\* trajectories[:num_spheres], each moved by the sample o.
FakeVals(num_spheres, o) ==
  [i \in 1..Min(num_spheres, Len(trajectories)) |->
     <<trajectories[i][1] + o[1], trajectories[i][2] + o[2],
       trajectories[i][3] + o[3]>>]

\* s.startswith(old)
StartsWith(s, old) == Len(s) >= Len(old) /\ SubSeq(s, 1, Len(old)) = old

\* s.replace(old, new), old not empty: every occurrence, left to right.
RECURSIVE Replace(_, _, _)
Replace(s, old, new) ==
  LET at == {i \in 1..Len(s) : StartsWith(Drop(s, i - 1), old)}
  IN IF at = {} THEN s
     ELSE LET i == CHOOSE i \in at : \A j \in at : i <= j
          IN Take(s, i - 1) \o new \o Replace(Drop(s, i - 1 + Len(old)), old, new)

\* A substitution that takes the bar after the status with it.
WithOOVAndBar(frame) == Replace(frame, <<"O", "K", "|">>, <<"O", "O", "V">>)

\* base_response.replace("OK", "OOV")
WithOOV(frame) == Replace(frame, <<"O", "K">>, <<"O", "O", "V">>)

\* make_fake_tx_string(tick, num_spheres)
MakeFakeTxString ==
  /\ area = "sim"
  /\ \E n \in 0..(Len(trajectories) + 1), o \in FakeOffsets :
       /\ positions' = FakeVals(n, o)
       /\ response' = WireFrame(Chunks(Flatten(FakeVals(n, o)), DEFAULT_WIDTH))
  /\ base_response' = <<>>
  /\ simOp' = "fake"
  /\ scenario' = <<>>
  /\ created' = <<>>
  /\ UNCHANGED <<notSim, spheres>>

\* make_tx_with_status(tick, out_of_volume)
MakeTxWithStatus ==
  /\ area = "sim"
  /\ \E o \in FakeOffsets, out_of_volume \in BOOLEAN :
       LET base == WireFrame(Chunks(Flatten(FakeVals(3, o)), DEFAULT_WIDTH))
       IN /\ positions' = FakeVals(3, o)
          /\ base_response' = base
          /\ response' = IF out_of_volume THEN WithOOV(base) ELSE base
          /\ simOp' = IF out_of_volume THEN "status_oov" ELSE "status"
  /\ scenario' = <<>>
  /\ created' = <<>>
  /\ UNCHANGED <<notSim, spheres>>

\* The fields of the dataclass SphereConfig, which are the keywords its
\* constructor takes, and the keywords create_simulator_from_config passes.
SphereConfigFields ==
  {"center", "motion_type", "amplitude", "frequency", "phase", "noise"}
CreateKeywords ==
  {"center", "motion_type", "amplitude", "frequency", "phase", "noise_level"}

\* A dataclass constructor raises TypeError on a keyword that is no field.
RaisesTypeError(keywords) == ~(keywords \subseteq SphereConfigFields)

\* SphereConfigData records of the preset scenarios (frequency and phase in
\* hundredths), and the scenarios made of them.
ScenarioSpheres ==
  { [name |-> "Sphere 2", center |-> <<300000, 0, 0>>, motion_type |-> "static",
     amplitude |-> 0, frequency100 |-> 0, phase100 |-> 0, noise_level |-> 0],
    [name |-> "XY Circle", center |-> <<0, 0, 0>>, motion_type |-> "circle_xy",
     amplitude |-> 200000, frequency100 |-> 50, phase100 |-> 0,
     noise_level |-> 500] }
Scenarios == UNION {[1..n -> ScenarioSpheres] : n \in 0..MaxSpheres}

\* The SphereConfig the keywords of one sphere_data give, when accepted.
ConfigOf(sphere_data) ==
  [center |-> sphere_data.center, motion_type |-> sphere_data.motion_type,
   amplitude |-> sphere_data.amplitude, noise |-> sphere_data.noise_level,
   half |-> <<0, 0, 0>>]

\* create_simulator_from_config(scenario): a new simulator, one add_sphere
\* per sphere_data; the first SphereConfig(...) that raises ends the call
\* without a simulator.
CreateSimulatorFromConfig ==
  /\ area = "sim"
  /\ \E sc \in Scenarios :
       /\ scenario' = sc
       /\ IF Len(sc) > 0 /\ RaisesTypeError(CreateKeywords)
            THEN /\ simOp' = "create_raised"
                 /\ created' = <<>>
            ELSE /\ simOp' = "created"
                 /\ created' = [i \in 1..Len(sc) |-> ConfigOf(sc[i])]
  /\ positions' = <<>>
  /\ response' = <<>>
  /\ base_response' = <<>>
  /\ UNCHANGED <<notSim, spheres>>

NextSim ==
  \/ AddSphere \/ Clear \/ GetAllPositions \/ GenerateTxResponse
  \/ MakeDynamicTxString \/ MakeFakeTxString \/ MakeTxWithStatus
  \/ CreateSimulatorFromConfig

SpecSim == InitSim /\ [][NextSim]_vars

\* s.split(sep)
RECURSIVE Split(_, _)
Split(s, sep) ==
  IF \A i \in 1..Len(s) : s[i] # sep THEN <<s>>
  ELSE LET i == CHOOSE i \in 1..Len(s) :
                  s[i] = sep /\ \A j \in 1..(i - 1) : s[j] # sep
       IN <<SubSeq(s, 1, i - 1)>> \o Split(SubSeq(s, i + 1, Len(s)), sep)

\* C9: the response of a simulator holding k targets (of the dynamic
\* generator, k = 3) splits at '|' into the header TXRESP, the status OK,
\* the coordinate tokens and the terminator END; there are exactly 3*k
\* coordinate tokens, token 3(i-1)+j encoding coordinate j of target i in
\* insertion order, and their number is a multiple of 3.
C9_ThreeTokensPerTarget ==
  simOp \in {"generate", "dynamic"} =>
    LET k == IF simOp = "generate" THEN Len(spheres) ELSE Len(base_coords)
        fields == Split(response, BAR)
        toks == SelectSeq(SubSeq(fields, 3, Len(fields) - 1), LAMBDA f : f # <<>>)
    IN /\ Len(fields) >= 4
       /\ fields[1] = <<"T", "X", "R", "E", "S", "P">>
       /\ fields[2] = <<"O", "K">>
       /\ fields[Len(fields)] = <<"E", "N", "D">>
       /\ Len(positions) = k
       /\ Len(toks) = 3 * k
       /\ Len(toks) % NUM_DIMEN = 0
       /\ Len(fields) = IF k = 0 THEN 4 ELSE 3 + 3 * k
       /\ \A i \in 1..k : \A j \in 1..3 :
            toks[3 * (i - 1) + j] = format_coord(positions[i][j], DEFAULT_WIDTH, TRUE)
       /\ \A i \in 1..k : simOp = "generate" => positions[i] \in get_position(spheres[i])

C9_Witness ==
  /\ simOp = "generate"
  /\ Len(spheres) = 2
  /\ spheres[1] # spheres[2]
  /\ positions[1][2] # positions[1][3]
  /\ Len(Split(response, BAR)) = 9

\* C16: forcing the out-of-volume status changes the status token and
\* nothing else: the frame make_tx_with_status(out_of_volume=True) returns
\* splits into the same fields as the frame make_fake_tx_string gave it,
\* except that the second field is OOV where that frame has OK: the header,
\* every coordinate token, their order and the terminator are the same.
C16_OnlyStatusChanges ==
  simOp = "status_oov" =>
    LET was == Split(base_response, BAR)
        now == Split(response, BAR)
    IN /\ Len(now) = Len(was)
       /\ Len(was) = 3 + 3 * NUM_DIMEN
       /\ was[2] = <<"O", "K">>
       /\ now[2] = <<"O", "O", "V">>
       /\ \A i \in 1..Len(was) : i # 2 => now[i] = was[i]
       /\ now[1] = <<"T", "X", "R", "E", "S", "P">>
       /\ now[Len(now)] = <<"E", "N", "D">>
       /\ \A i \in 1..3 : \A j \in 1..3 :
            now[2 + 3 * (i - 1) + j] = format_coord(positions[i][j], DEFAULT_WIDTH, TRUE)

C16_Witness ==
  /\ simOp = "status_oov"
  /\ Len(response) = Len(base_response) + 1
  /\ positions[1] # trajectories[1]

\* C17: index stability.  A step leaves the registry as it is, or empties
\* it (clear), or adds one target behind the others, every earlier target
\* keeping its index; get_all_positions returns one position per added
\* target, the i-th being a position of the i-th added target; after clear
\* the registry is empty and get_all_positions returns the empty list.
C17_IndexStability ==
  [][ /\ \/ spheres' = spheres
         \/ simOp' = "clear" /\ spheres' = <<>>
         \/ /\ simOp' = "add"
            /\ Len(spheres') = Len(spheres) + 1
            /\ \A i \in 1..Len(spheres) : spheres'[i] = spheres[i]
      /\ (simOp' \in {"positions", "generate"}) =>
            /\ spheres' = spheres
            /\ Len(positions') = Len(spheres)
            /\ \A i \in 1..Len(spheres) : positions'[i] \in get_position(spheres[i])
            /\ (simOp = "clear") => positions' = <<>> ]_vars

C17_Witness ==
  /\ simOp = "positions"
  /\ Len(spheres) = 2
  /\ positions[1] \notin get_position(spheres[2])
  /\ positions[2] \notin get_position(spheres[1])

\* The motion types get_position has a branch for.
BranchTypes ==
  {"static", "circle_xy", "circle_xz", "wave_x", "wave_xyz", "spiral",
   "random_walk"}

StaticTwin(cfg) == [cfg EXCEPT !.motion_type = "static"]

\* C18: a target whose motion_type is none of the known variants does not
\* make get_position raise: a position is returned for it, and with noise 0
\* it is the one position of the static target with the same center, the
\* center with its coordinates cut to integers: (-5.5, 7.5, 123456) gives
\* (-5, 7, 123456).
C18_UnknownTypeIsStatic ==
  simOp \in {"positions", "generate"} =>
    /\ Len(positions) = Len(spheres)
    /\ \A i \in 1..Len(spheres) :
         (spheres[i].motion_type \notin BranchTypes /\ spheres[i].noise = 0) =>
           /\ get_position(spheres[i]) = {positions[i]}
           /\ get_position(StaticTwin(spheres[i])) = {positions[i]}
           /\ \A j \in 1..3 :
                /\ 2 * positions[i][j] - 2 * spheres[i].center[j] \in {-1, 0, 1}
                /\ spheres[i].half[j] = 0 => positions[i][j] = spheres[i].center[j]
           /\ (spheres[i].center = <<-5, 7, 123456>> /\ spheres[i].half = <<-1, 1, 0>>)
                => positions[i] = <<-5, 7, 123456>>

C18_Witness ==
  /\ simOp = "positions"
  /\ Len(spheres) = 2
  /\ spheres[1].motion_type = "figure8_xy"
  /\ spheres[1].half # <<0, 0, 0>>
  /\ positions[1] = <<-5, 7, 123456>>
  /\ spheres[2].motion_type = "circle_xy"

\* C19: circle_yz is a motion variant of its own: the position of a
\* circle_yz target with amplitude > 0 (noise 0, whole center) has the x of
\* the center, and its y and z lie on the circle of radius amplitude around
\* the center's y and z, so it is not the center itself.
C19_CircleYZ ==
  simOp \in {"positions", "generate"} =>
    \A i \in 1..Len(spheres) :
      LET cfg == spheres[i]
          dx == positions[i][1] - cfg.center[1]
          dy == positions[i][2] - cfg.center[2]
          dz == positions[i][3] - cfg.center[3]
      IN (/\ cfg.motion_type = "circle_yz"
          /\ cfg.amplitude > 0
          /\ cfg.noise = 0
          /\ cfg.half = <<0, 0, 0>>) =>
           /\ dx = 0
           /\ dy * dy + dz * dz = cfg.amplitude * cfg.amplitude

\* C20: for every scenario record with k spheres the call returns, without
\* an error, a simulator that holds exactly k targets in the scenario's
\* order, target i having the center, motion type, amplitude and noise level
\* of sphere i of the scenario.
C20_SimulatorFromScenario ==
  simOp \in {"created", "create_raised"} =>
    /\ simOp = "created"
    /\ Len(created) = Len(scenario)
    /\ \A i \in 1..Len(scenario) :
         /\ created[i].center = scenario[i].center
         /\ created[i].motion_type = scenario[i].motion_type
         /\ created[i].amplitude = scenario[i].amplitude
         /\ created[i].noise = scenario[i].noise_level

\* ====================================================================
\* One iteration of the reader's main loop (the while True of the reader)
\* ====================================================================
\* The frames a poll returns: the frame of 0..MaxVals integers, the empty
\* string and a frame cut off inside its second token.
PollValues == <<100000, -200000, 50000, 7>>
PollFrame(n) ==
  WireFrame(Chunks([i \in 1..n |-> PollValues[((i - 1) % 4) + 1]], NUM_DIGIT))
CutFrame == SubSeq(PollFrame(2), 1, Len(TXRESP_OK) + 10)
PollFrames == {PollFrame(n) : n \in 0..MaxVals} \cup {<<>>, CutFrame}

\* What Sphere(pos_list) leaves when pos_list has fewer than three entries:
\* pos_list[1] or pos_list[2] raises IndexError.
IndexError == <<"IndexError">>

\* Sphere(pos_list): x, y, z of the first three entries.
Sphere(pos_list) ==
  IF Len(pos_list) < NUM_DIMEN THEN IndexError
  ELSE <<pos_list[1], pos_list[2], pos_list[3]>>

\* while len(pos_list) > 0: list_sphere.append(Sphere(pos_list[:NUM_DIMEN]));
\* pos_list = pos_list[NUM_DIMEN:].  A raise ends the grouping.
RECURSIVE GroupSpheres(_)
GroupSpheres(pos_list) ==
  IF Len(pos_list) = 0 THEN <<>>
  ELSE IF Sphere(Take(pos_list, NUM_DIMEN)) = IndexError THEN <<IndexError>>
  ELSE <<Sphere(Take(pos_list, NUM_DIMEN))>> \o GroupSpheres(Drop(pos_list, NUM_DIMEN))

Raised(list_sphere) ==
  \E i \in 1..Len(list_sphere) : list_sphere[i] = IndexError

\* A validation that lets every frame through.
ValidAnyCount(pos_list) == Len(pos_list) >= 0

\* The negation of: if len(pos_list) % NUM_DIMEN != 0: continue
ValidCount(pos_list) == Len(pos_list) % NUM_DIMEN = 0

\* format_sphere_display(list_sphere, len(picked_coord)), by what it shows.
DisplayLines(list_sphere, picked_count) ==
  [spheres |-> list_sphere, picked |-> picked_count]

InitLoop ==
  /\ area = "loop"
  /\ IdleSched /\ IdleDisp /\ IdleCodec /\ IdleSim /\ IdleLoop

\* The throttle: less than UPDATE_RATE since the last update; sleep and
\* continue.
LoopThrottle ==
  /\ area = "loop"
  /\ ~rDone
  /\ rOutcome' = "throttled"
  /\ rBuilt' = 0
  /\ rFlip' = ~rFlip
  /\ UNCHANGED <<notLoop, rFrame, rPos, rSpheres, rPicked, rShown, rExported, rDone>>

\* A full iteration: poll, decode, validate, group, ask both keys, then
\* record, or export and leave, and update the display.
LoopIteration(frame, rec, exp) ==
  /\ area = "loop"
  /\ ~rDone
  /\ rFlip' = ~rFlip
  /\ rFrame' = frame
  /\ rPos' = TX0008_pos_str_to_list(frame, NUM_DIGIT)
  /\ LET pos_list == TX0008_pos_str_to_list(frame, NUM_DIGIT)
         list_sphere == GroupSpheres(pos_list)
     IN IF ~ValidCount(pos_list)
          THEN /\ rOutcome' = "discarded"
               /\ rBuilt' = 0
               /\ UNCHANGED <<rSpheres, rPicked, rShown, rExported, rDone>>
        ELSE IF Raised(list_sphere)
          THEN /\ rOutcome' = "error"
               /\ rBuilt' = Len(list_sphere) - 1
               /\ rSpheres' = SubSeq(list_sphere, 1, Len(list_sphere) - 1)
               /\ rDone' = TRUE
               /\ UNCHANGED <<rPicked, rShown, rExported>>
        ELSE /\ rSpheres' = list_sphere
             /\ rBuilt' = Len(list_sphere)
             /\ IF rec
                  THEN /\ Len(rPicked) < MaxPicked
                       /\ rPicked' = Append(rPicked, list_sphere)
                       /\ rShown' = DisplayLines(list_sphere, Len(rPicked) + 1)
                       /\ rOutcome' = "recorded"
                       /\ UNCHANGED <<rExported, rDone>>
                ELSE IF exp
                  THEN /\ rExported' = rPicked
                       /\ rShown' = [final |-> Len(rPicked)]
                       /\ rOutcome' = "exported"
                       /\ rDone' = TRUE
                       /\ UNCHANGED rPicked
                ELSE /\ rShown' = DisplayLines(list_sphere, Len(rPicked))
                     /\ rOutcome' = "shown"
                     /\ UNCHANGED <<rPicked, rExported, rDone>>
  /\ UNCHANGED <<notLoop>>

LoopPoll ==
  \E frame \in PollFrames, rec \in BOOLEAN, exp \in BOOLEAN :
    LoopIteration(frame, rec, exp)

NextLoop == LoopThrottle \/ LoopPoll

SpecReader == InitLoop /\ [][NextLoop]_vars

\* C15: an iteration whose polled frame decodes to a number of values that
\* is no multiple of 3 is one discarded frame and not fatal: it builds no
\* Sphere, leaves list_sphere, the recorded coordinates, the export and the
\* display as they were, and the loop goes on to the next poll; a frame that
\* decodes to zero values is accepted with an empty sphere list.
C15_BadCountDiscarded ==
  [][ (rFlip' # rFlip /\ rOutcome' # "throttled") =>
        /\ (Len(rPos') % 3 # 0) =>
              /\ rOutcome' = "discarded"
              /\ rBuilt' = 0
              /\ rSpheres' = rSpheres
              /\ rPicked' = rPicked
              /\ rExported' = rExported
              /\ rShown' = rShown
              /\ ~rDone'
        /\ (Len(rPos') = 0) =>
              /\ rOutcome' \in {"shown", "recorded", "exported"}
              /\ rSpheres' = <<>> ]_vars

C15_Witness ==
  /\ rOutcome = "discarded"
  /\ Len(rPos) = 2
  /\ Len(rSpheres) = 1
  /\ Len(rPicked) = 1
  /\ Len(rFrame) > 0

\* ====================================================================
\* Further properties of the codec, the scheduler and the reader loop
\* ====================================================================

SleepAtBound(th) ==
  /\ Running
  /\ pc[th] = "sl_write"
  /\ tmp[th] >= MaxTick
  /\ tmp' = [tmp EXCEPT ![th] = 0]
  /\ pc' = [pc EXCEPT ![th] = ret[th]]
  /\ ret' = [ret EXCEPT ![th] = "none"]
  /\ UNCHANGED <<notSched, patched, schedule, tick, fired, history, lock, key, want, res,
                 recPressed, expPressed, picked, exported, exited, incs, tkIncs,
                 callTick, callStable, answered, lookups, marks, phase, histReal>>

\* The steps of the terminator thread.
TerminatorStep ==
  \/ TerminatorSleep
  \/ SleepWrite("terminator")
  \/ SleepAtBound("terminator")
  \/ TerminatorExit

NextLive == NextSched \/ \E th \in Threads : SleepAtBound(th)

\* The schedules of the runs whose termination is examined: no event at
\* all, one record event and no export (the reader loop never ends by
\* itself), and one export event.
LiveSchedules ==
  {s \in Schedules : \A t \in Ticks : t > 0 => s[t] = NoKey}

InitLive ==
  /\ area = "sched"
  /\ phase = "single"
  /\ histReal = <<>>
  /\ \E p \in BOOLEAN, s \in LiveSchedules : HarnessStart(p, s)
  /\ IdleDisp /\ IdleCodec /\ IdleSim /\ IdleLoop

\* The harness with a terminator thread that is scheduled fairly: its sleep
\* returns and the thread is run again whenever it can take a step.
SpecLive == InitLive /\ [][NextLive]_vars /\ WF_vars(TerminatorStep)

DefaultSchedule ==
  [t \in Ticks |-> IF t > MaxSchedTick THEN NoKey
                   ELSE IF t = MaxSchedTick THEN BUTTON_EXPORT
                   ELSE BUTTON_REC]

ScheduledTicks == {t \in Ticks : schedule[t] # NoKey}

\* C28: every event of the key schedule is delivered to the reader: with
\* the default schedule a reader that has left its loop has been given
\* every scheduled tick, tick 0 included (each is in the fired set), has
\* recorded once per record event and has then exported.
C28_EveryEventDelivered ==
  (schedule = DefaultSchedule /\ pc["reader"] = "r_done") =>
     /\ fired = ScheduledTicks
     /\ picked = MaxSchedTick
     /\ exported

\* C29: in every reachable state the fired set holds only ticks that are
\* keys of the schedule and are not greater than the current tick, and,
\* outside the two statements that add to the set and to the log, the
\* history holds exactly one entry (t, k) per fired tick t, k being
\* schedule[t], in strictly increasing order of t.
C29_FiredAndHistoryConsistent ==
  /\ fired \subseteq ScheduledTicks
  /\ \A t \in fired : t <= tick
  /\ (pc["reader"] # "ip_hist") =>
       /\ Len(history) = Cardinality(fired)
       /\ {history[i][1] : i \in 1..Len(history)} = fired
       /\ \A i \in 1..Len(history) : history[i][2] = schedule[history[i][1]]
       /\ \A i \in 1..(Len(history) - 1) : history[i][1] < history[i + 1][1]

\* C30: a fired export event is never lost: an iteration of the reader
\* loop whose is_pressed(BUTTON_EXPORT) call returned True writes the export
\* file with all records picked so far and leaves the loop, also when tick
\* has advanced between the poll of the record key and the poll of the
\* export key.
C30_ExportNeverLost ==
  [][ (/\ pc["reader"] = "r_branch"
       /\ expPressed
       /\ pc'["reader"] # "r_branch")
      => /\ exported'
         /\ picked' = picked
         /\ (pc'["reader"] = "r_done" \/ ret'["reader"] = "r_done") ]_vars

====
